---- MODULE Spec2Model ----
(***************************************************************************)
(* Model of packages/server/src/middleware/nuxt.js: the nuxtMiddleware     *)
(* request handler, defaultPushAssets, getCspString and                    *)
(* transformPolicyObject.                                                  *)
(*                                                                         *)
(* Text is modelled as a sequence of tokens (strings); template literals   *)
(* and Array.join are concatenations of such sequences.  A JavaScript Set  *)
(* is modelled as a duplicate-free sequence in insertion order, a plain    *)
(* object as a sequence of <<key, value>> pairs in insertion order.        *)
(***************************************************************************)
EXTENDS Integers, Sequences, FiniteSets, TLC

VARIABLES
  options,       \* options.render.* , options.dev, options.build.crossorigin (fixed at construction)
  pc,            \* position of the handler
  req,           \* the request: its conditional header
  result,        \* the object returned by renderRoute (cspScriptSrcHashSet is held by reference)
  rendered,      \* the cspScriptSrcHashSet as the renderer produced it (history variable)
  context,       \* context.redirected and context.nuxt.error
  preloadFiles,  \* what getPreloadFiles() returned
  res,           \* the response: statusCode, headers, body, number of res.end calls
  log,           \* the observable events of the request, in order
  thrown,        \* the exception in flight, if any
  returned,      \* the value the handler's promise resolves with
  nextCalls      \* the errors passed to next()

vars == <<options, pc, req, result, rendered, context, preloadFiles, res, log,
          thrown, returned, nextCalls>>

(* ------------------------------ bounds -------------------------------- *)

\* longest list getPreloadFiles() returns
MaxPreload == 2

(* --------------------------- text helpers ----------------------------- *)

\* Array.prototype.join on an array of strings
RECURSIVE JoinStrings(_, _)
JoinStrings(strs, sep) ==
  IF Len(strs) = 0 THEN <<>>
  ELSE IF Len(strs) = 1 THEN <<strs[1]>>
  ELSE <<strs[1], sep>> \o JoinStrings(Tail(strs), sep)

\* Array.prototype.join on an array of texts (token sequences)
RECURSIVE JoinTexts(_, _)
JoinTexts(texts, sep) ==
  IF Len(texts) = 0 THEN <<>>
  ELSE IF Len(texts) = 1 THEN texts[1]
  ELSE texts[1] \o <<sep>> \o JoinTexts(Tail(texts), sep)

\* Set.prototype.add: insertion order is kept, a present element is not added again
SetAdd(s, x) ==
  IF \E i \in 1..Len(s) : s[i] = x THEN s ELSE Append(s, x)

\* new Set(xs).forEach(src => s.add(src))
RECURSIVE SetAddAll(_, _)
SetAddAll(s, xs) ==
  IF Len(xs) = 0 THEN s ELSE SetAddAll(SetAdd(s, xs[1]), Tail(xs))

\* Buffer.byteLength(html): UTF-8 length of a sequence of code points
RECURSIVE ByteLength(_)
ByteLength(cps) ==
  IF Len(cps) = 0 THEN 0
  ELSE (IF cps[1] < 128 THEN 1
        ELSE IF cps[1] < 2048 THEN 2
        ELSE IF cps[1] < 65536 THEN 3 ELSE 4) + ByteLength(Tail(cps))

(* ------------------------- external libraries ------------------------- *)

\* the pages the renderer can produce, as sequences of code points
HtmlPages == { <<104>>, <<233, 8364>> }

\* generateETag(html, options.render.etag): a tag that identifies the content
ETagOf(html) == IF html = <<104>> THEN "W/\"1-h\"" ELSE "W/\"5-e\""

\* fresh(req.headers, { etag }): the If-None-Match header names the tag
Fresh(request, etag) ==
  request.hasIfNoneMatch /\ request.ifNoneMatch = etag

(* ------------------------------ options ------------------------------- *)

\* options.render.http2.shouldPush: unset, or a user predicate
ShouldPushOptions == { "unset", "rejectAll", "appJsAndFonts" }

\* shouldPush(fileWithoutQuery, asType) for the user predicates above
ShouldPushFn(shouldPush, fileWithoutQuery, asType) ==
  IF shouldPush = "appJsAndFonts"
  THEN fileWithoutQuery = "app.js" \/ asType = "font"
  ELSE FALSE

\* options.render.http2.pushAssets: unset, or a user function
PushAssetsOptions == { "unset", "custom" }

\* pushAssets(req, res, publicPath, preloadFiles) for the user function above:
\* it pushes one fixed asset when there is anything to preload
PushAssetsFn(publicPath, files) ==
  IF Len(files) = 0 THEN <<>>
  ELSE << <<"<", publicPath, "custom.js", ">; rel=preload; as=script">> >>

\* options.render.csp: falsy, or an object { allowedSources, policies, reportOnly }
CspOff ==
  [enabled |-> FALSE, allowedIsArray |-> FALSE, allowedSources |-> <<>>,
   policiesIsObject |-> FALSE, policies |-> <<>>, reportOnly |-> FALSE]

CspOptions ==
  { CspOff,
    [CspOff EXCEPT !.enabled = TRUE],
    [CspOff EXCEPT !.enabled = TRUE, !.reportOnly = TRUE,
                   !.allowedIsArray = TRUE,
                   !.allowedSources = <<"https://cdn.example.com">>],
    \* allowedSources wins over policies when both are given
    [CspOff EXCEPT !.enabled = TRUE,
                   !.allowedIsArray = TRUE, !.allowedSources = <<>>,
                   !.policiesIsObject = TRUE,
                   !.policies = << <<"default-src", <<"'none'">>>> >>],
    [CspOff EXCEPT !.enabled = TRUE, !.policiesIsObject = TRUE,
                   !.policies = << <<"default-src", <<"'none'">>>> >>],
    [CspOff EXCEPT !.enabled = TRUE, !.policiesIsObject = TRUE, !.reportOnly = TRUE,
                   !.policies = << <<"script-src", <<"'self'", "https://cdn.example.com",
                                                     "https://cdn.example.com">>>>,
                                   <<"default-src", <<"'none'">>>> >>],
    [CspOff EXCEPT !.enabled = TRUE, !.policiesIsObject = TRUE,
                   !.policies = << <<"img-src", <<"data:", "data:">>>>,
                                   <<"script-src", <<"'sha256-abc'", "'unsafe-inline'">>>> >>] }

\* resources.clientManifest.publicPath
PublicPath == "/_nuxt/"

OptionsSet ==
  [ etag        : BOOLEAN,
    push        : BOOLEAN,
    shouldPush  : ShouldPushOptions,
    pushAssets  : PushAssetsOptions,
    csp         : CspOptions,
    dev         : BOOLEAN,
    crossorigin : {"", "anonymous"} ]

(* --------------------------- renderer output -------------------------- *)

PreloadEntries ==
  { [file |-> "app.js?v=1", asType |-> "script", fileWithoutQuery |-> "app.js", modern |-> FALSE],
    [file |-> "app.mjs", asType |-> "script", fileWithoutQuery |-> "app.mjs", modern |-> TRUE],
    [file |-> "app.css", asType |-> "style", fileWithoutQuery |-> "app.css", modern |-> FALSE],
    [file |-> "a.woff2", asType |-> "font", fileWithoutQuery |-> "a.woff2", modern |-> FALSE] }

PreloadLists ==
  UNION { [1..n -> PreloadEntries] : n \in 0..MaxPreload }

\* the cspScriptSrcHashSet values the renderer produces
HashSets == { <<>>, <<"'sha256-abc'">>, <<"'sha256-abc'", "'sha256-def'">> }

NoError == [present |-> FALSE, statusCode |-> 0]

\* result.error / context.nuxt.error; statusCode 0 stands for a missing statusCode
Errors == { NoError,
            [present |-> TRUE, statusCode |-> 0],
            [present |-> TRUE, statusCode |-> 404] }

(* -------------------------- defaultPushAssets ------------------------- *)

\* mutant: the default script/style filter is missing
PushApprovedNoDefaultFilter(entry, shouldPush) ==
  ~(shouldPush # "unset" /\ ~ShouldPushFn(shouldPush, entry.fileWithoutQuery, entry.asType))

\* the two early returns of the forEach callback, negated
PushApproved(entry, shouldPush) ==
  /\ ~(shouldPush = "unset" /\ entry.asType # "script" /\ entry.asType # "style")
  /\ ~(shouldPush # "unset" /\ ~ShouldPushFn(shouldPush, entry.fileWithoutQuery, entry.asType))

\* `<${publicPath}${file}>; rel=${ref};${cors} as=${asType}`
PushLink(entry, publicPath, opts) ==
  <<"<", publicPath, entry.file, ">; rel=",
    IF entry.modern THEN "modulepreload" ELSE "preload", ";">>
  \o (IF opts.crossorigin # "" THEN <<" crossorigin=", opts.crossorigin, ";">> ELSE <<>>)
  \o <<" as=", entry.asType>>

RECURSIVE defaultPushAssets(_, _, _, _)
defaultPushAssets(files, shouldPush, publicPath, opts) ==
  IF Len(files) = 0 THEN <<>>
  ELSE (IF PushApproved(files[1], shouldPush)
        THEN << PushLink(files[1], publicPath, opts) >>
        ELSE <<>>)
       \o defaultPushAssets(Tail(files), shouldPush, publicPath, opts)

(* ---------------------------- getCspString ---------------------------- *)

\* policies['script-src'], or <<>> when the key is missing
RECURSIVE PolicyGet(_, _)
PolicyGet(policies, key) ==
  IF Len(policies) = 0 THEN <<>>
  ELSE IF policies[1][1] = key THEN policies[1][2]
  ELSE PolicyGet(Tail(policies), key)

PolicyHas(policies, key) == \E i \in 1..Len(policies) : policies[i][1] = key

\* { ...policies, [key]: value }: an existing key keeps its place, a new one goes last
ObjectSpread(policies, key, value) ==
  IF PolicyHas(policies, key)
  THEN [i \in 1..Len(policies) |->
          IF policies[i][1] = key THEN <<key, value>> ELSE policies[i]]
  ELSE Append(policies, <<key, value>>)

\* mutant: 'self' is not added to the Set
ScriptSrcSetWithoutSelf(policies, cspScriptSrcHashSet) ==
  IF PolicyHas(policies, "script-src")
  THEN SetAddAll(cspScriptSrcHashSet, PolicyGet(policies, "script-src"))
  ELSE cspScriptSrcHashSet

\* what transformPolicyObject does to the Set it was handed: hashAndPolicySet is
\* the same object as cspScriptSrcHashSet
ScriptSrcSet(policies, cspScriptSrcHashSet) ==
  LET withSelf == SetAdd(cspScriptSrcHashSet, "'self'")
  IN  IF PolicyHas(policies, "script-src")
      THEN SetAddAll(withSelf, PolicyGet(policies, "script-src"))
      ELSE withSelf

\* the object transformPolicyObject returns and the state it leaves the Set in
transformPolicyObject(policies, cspScriptSrcHashSet) ==
  LET set == ScriptSrcSet(policies, cspScriptSrcHashSet)
  IN  [object |-> ObjectSpread(policies, "script-src", set), hashSet |-> set]

\* `script-src 'self'${isDev ? ` 'unsafe-eval'` : ''} ${joinedHashSet}`
BaseCspStr(cspScriptSrcHashSet, isDev) ==
  <<"script-src", " ", "'self'">>
  \o (IF isDev THEN <<" ", "'unsafe-eval'">> ELSE <<>>)
  \o <<" ">> \o JoinStrings(cspScriptSrcHashSet, " ")

\* Object.entries(o).map(([k, v]) => `${k} ${v.join(' ')}`).join('; ')
PolicyString(object) ==
  JoinTexts([i \in 1..Len(object) |->
               <<object[i][1], " ">> \o JoinStrings(object[i][2], " ")], "; ")

\* the header value, and the state the Set is left in
getCspString(cspScriptSrcHashSet, csp, isDev) ==
  IF csp.allowedIsArray
  THEN [value   |-> BaseCspStr(cspScriptSrcHashSet, isDev) \o <<" ">>
                    \o JoinStrings(csp.allowedSources, " "),
        hashSet |-> cspScriptSrcHashSet]
  ELSE IF csp.policiesIsObject
  THEN LET t == transformPolicyObject(csp.policies, cspScriptSrcHashSet)
       IN  [value |-> PolicyString(t.object), hashSet |-> t.hashSet]
  ELSE [value |-> BaseCspStr(cspScriptSrcHashSet, isDev), hashSet |-> cspScriptSrcHashSet]

(* ------------------------------ response ------------------------------ *)

HeaderNames ==
  { "ETag", "Link", "Content-Security-Policy", "Content-Security-Policy-Report-Only",
    "Content-Type", "Accept-Ranges", "Content-Length" }

NotSet == [isSet |-> FALSE, value |-> <<>>]

\* res.setHeader(name, value)
SetHeader(r, name, value) ==
  [r EXCEPT !.headers[name] = [isSet |-> TRUE, value |-> value]]

\* res.end(body)
End(r, body) == [r EXCEPT !.ended = @ + 1, !.body = body]

Event(ev, arg) == [ev |-> ev, arg |-> arg]

Requests ==
  { [hasIfNoneMatch |-> FALSE, ifNoneMatch |-> ""],
    [hasIfNoneMatch |-> TRUE, ifNoneMatch |-> ETagOf(<<104>>)] }

NoResult ==
  [html |-> <<>>, cspScriptSrcHashSet |-> <<>>, error |-> NoError, redirected |-> FALSE]

NoReturn == [kind |-> "pending", html |-> <<>>]

(* ------------------------------- Init --------------------------------- *)

Init ==
  /\ options \in OptionsSet
  /\ pc = "start"
  /\ req = [hasIfNoneMatch |-> FALSE, ifNoneMatch |-> ""]
  /\ result = NoResult
  /\ rendered = <<>>
  /\ context = [redirected |-> FALSE, nuxtError |-> NoError]
  /\ preloadFiles = <<>>
  /\ res = [statusCode |-> 200, headers |-> [h \in HeaderNames |-> NotSet],
            body |-> <<>>, ended |-> 0]
  /\ log = <<>>
  /\ thrown = ""
  /\ returned = NoReturn
  /\ nextCalls = <<>>

(* --------------------------- nuxtMiddleware --------------------------- *)

\* const context = getContext(req, res); res.statusCode = 200
Start ==
  /\ pc = "start"
  /\ \E r \in Requests : req' = r
  /\ res' = [res EXCEPT !.statusCode = 200]
  /\ log' = Append(log, Event("statusCode", ""))
  /\ pc' = "render"
  /\ UNCHANGED <<options, result, rendered, context, preloadFiles, thrown, returned, nextCalls>>

\* the context the renderer leaves behind: result.error and result.redirected are
\* what the renderer recorded as context.nuxt.error and context.redirected
RendererContext(error, redirected) == [redirected |-> redirected, nuxtError |-> error]

\* const result = await renderRoute(url, context): the renderer returns
RenderReturns ==
  /\ pc = "render"
  /\ \E html \in HtmlPages, hashes \in HashSets, error \in Errors, redirected \in BOOLEAN :
       /\ result' = [html |-> html, cspScriptSrcHashSet |-> hashes,
                     error |-> error, redirected |-> redirected]
       /\ rendered' = hashes
       /\ context' = RendererContext(error, redirected)
  /\ log' = Append(log, Event("renderRoute", ""))
  /\ pc' = "callHook"
  /\ UNCHANGED <<options, req, preloadFiles, res, thrown, returned, nextCalls>>

\* await renderRoute(url, context): the renderer throws, having redirected or not
RenderThrows ==
  /\ pc = "render"
  /\ \E redirected \in BOOLEAN : context' = [context EXCEPT !.redirected = redirected]
  /\ thrown' = "RenderError"
  /\ log' = Append(log, Event("renderRoute", ""))
  /\ pc' = "catch"
  /\ UNCHANGED <<options, req, result, rendered, preloadFiles, res, returned, nextCalls>>

\* mutant: the render:route hook is dispatched but not awaited
CallHookRouteNotAwaited ==
  /\ pc = "callHook"
  /\ log' = Append(log, Event("callHook", "render:route"))
  /\ pc' = "redirected"
  /\ UNCHANGED <<options, req, result, rendered, context, preloadFiles, res, thrown,
                 returned, nextCalls>>

\* nuxt.callHook('render:route', url, result, context) is dispatched
CallHookRoute ==
  /\ pc = "callHook"
  /\ log' = Append(log, Event("callHook", "render:route"))
  /\ pc' = "awaitHook"
  /\ UNCHANGED <<options, req, result, rendered, context, preloadFiles, res, thrown,
                 returned, nextCalls>>

\* await ...: the render:route hook completes (the dispatcher is a notification
\* mechanism: it reports a failing hook itself and does not reject)
HookRouteResolves ==
  /\ pc = "awaitHook"
  /\ log' = Append(log, Event("hookDone", "render:route"))
  /\ pc' = "redirected"
  /\ UNCHANGED <<options, req, result, rendered, context, preloadFiles, res, thrown,
                 returned, nextCalls>>

\* mutant: the redirect branch does not return
CheckRedirectedNoReturn ==
  /\ pc = "redirected"
  /\ IF result.redirected
     THEN log' = Append(log, Event("callHook", "render:routeDone"))
     ELSE UNCHANGED log
  /\ pc' = "error"
  /\ UNCHANGED <<options, req, result, rendered, context, preloadFiles, res, thrown,
                 returned, nextCalls>>

\* if (redirected) { nuxt.callHook('render:routeDone', ...); return html }
CheckRedirected ==
  /\ pc = "redirected"
  /\ IF result.redirected
     THEN /\ log' = Append(log, Event("callHook", "render:routeDone"))
          /\ returned' = [kind |-> "html", html |-> result.html]
          /\ pc' = "done"
     ELSE /\ pc' = "error"
          /\ UNCHANGED <<log, returned>>
  /\ UNCHANGED <<options, req, result, rendered, context, preloadFiles, res, thrown, nextCalls>>

\* mutant: no default for a missing statusCode
ErrorStatusNoDefault(error) == error.statusCode

\* context.nuxt.error.statusCode || 500
ErrorStatus(error) == IF error.statusCode # 0 THEN error.statusCode ELSE 500

\* if (error) { res.statusCode = context.nuxt.error.statusCode || 500 }
SetErrorStatus ==
  /\ pc = "error"
  /\ IF result.error.present
     THEN /\ res' = [res EXCEPT !.statusCode = ErrorStatus(context.nuxtError)]
          /\ log' = Append(log, Event("statusCode", ""))
     ELSE UNCHANGED <<res, log>>
  /\ pc' = "etag"
  /\ UNCHANGED <<options, req, result, rendered, context, preloadFiles, thrown,
                 returned, nextCalls>>

\* !error && options.render.etag
WantsETag == ~result.error.present /\ options.etag

\* mutant: the 304 branch does not return
AddETagNoReturn ==
  /\ pc = "etag"
  /\ IF ~result.error.present /\ options.etag
     THEN LET etag == ETagOf(result.html)
          IN  IF Fresh(req, etag)
              THEN /\ res' = End([res EXCEPT !.statusCode = 304], <<>>)
                   /\ log' = log \o <<Event("statusCode", ""), Event("end", ""),
                                      Event("callHook", "render:routeDone")>>
              ELSE /\ res' = SetHeader(res, "ETag", <<etag>>)
                   /\ log' = Append(log, Event("setHeader", "ETag"))
     ELSE UNCHANGED <<res, log>>
  /\ pc' = "push"
  /\ UNCHANGED <<options, req, result, rendered, context, preloadFiles, thrown,
                 returned, nextCalls>>

\* the ETag block: a fresh request is answered 304 with no body, any other gets the header
AddETag ==
  /\ pc = "etag"
  /\ IF WantsETag
     THEN LET etag == ETagOf(result.html)
          IN  IF Fresh(req, etag)
              THEN /\ res' = End([res EXCEPT !.statusCode = 304], <<>>)
                   /\ log' = log \o <<Event("statusCode", ""), Event("end", ""),
                                      Event("callHook", "render:routeDone")>>
                   /\ returned' = [kind |-> "undefined", html |-> <<>>]
                   /\ pc' = "done"
              ELSE /\ res' = SetHeader(res, "ETag", <<etag>>)
                   /\ log' = Append(log, Event("setHeader", "ETag"))
                   /\ pc' = "push"
                   /\ UNCHANGED returned
     ELSE /\ pc' = "push"
          /\ UNCHANGED <<res, log, returned>>
  /\ UNCHANGED <<options, req, result, rendered, context, preloadFiles, thrown, nextCalls>>

\* mutant: the push block does not look at the error
WantsPushIgnoringError == options.push

\* !error && options.render.http2.push
WantsPush == ~result.error.present /\ options.push

\* pushAssets ? pushAssets(req, res, publicPath, preloadFiles)
\*            : defaultPushAssets(preloadFiles, shouldPush, publicPath, options)
PushLinks(files) ==
  IF options.pushAssets # "unset"
  THEN PushAssetsFn(PublicPath, files)
  ELSE defaultPushAssets(files, options.shouldPush, PublicPath, options)

\* the HTTP2 push block: one Link header when there is a link
PushHeaders ==
  /\ pc = "push"
  /\ IF WantsPush
     THEN \E files \in PreloadLists :
            LET links == PushLinks(files)
            IN  /\ preloadFiles' = files
                /\ IF Len(links) > 0
                   THEN /\ res' = SetHeader(res, "Link", JoinTexts(links, ", "))
                        /\ log' = Append(log, Event("setHeader", "Link"))
                   ELSE UNCHANGED <<res, log>>
     ELSE UNCHANGED <<preloadFiles, res, log>>
  /\ pc' = "csp"
  /\ UNCHANGED <<options, req, result, rendered, context, thrown, returned, nextCalls>>

\* the user's pushAssets function throws
PushAssetsThrows ==
  /\ pc = "push"
  /\ WantsPush
  /\ options.pushAssets # "unset"
  /\ thrown' = "PushError"
  /\ pc' = "catch"
  /\ UNCHANGED <<options, req, result, rendered, context, preloadFiles, res, log,
                 returned, nextCalls>>

\* options.render.csp
WantsCsp == options.csp.enabled

\* options.render.csp.reportOnly ? '...-Report-Only' : 'Content-Security-Policy'
CspHeaderName ==
  IF options.csp.reportOnly
  THEN "Content-Security-Policy-Report-Only" ELSE "Content-Security-Policy"

\* the CSP block; getCspString works on the result's own Set
AddCsp ==
  /\ pc = "csp"
  /\ IF WantsCsp
     THEN LET c == getCspString(result.cspScriptSrcHashSet, options.csp, options.dev)
          IN  /\ res' = SetHeader(res, CspHeaderName, c.value)
              /\ result' = [result EXCEPT !.cspScriptSrcHashSet = c.hashSet]
              /\ log' = Append(log, Event("setHeader", CspHeaderName))
     ELSE UNCHANGED <<res, result, log>>
  /\ pc' = "send"
  /\ UNCHANGED <<options, req, rendered, context, preloadFiles, thrown, returned, nextCalls>>

\* mutant: Content-Length is set after the body has been sent
SendResponseLengthAfterEnd ==
  /\ pc = "send"
  /\ res' = SetHeader(End(SetHeader(SetHeader(res,
                 "Content-Type", <<"text/html; charset=utf-8">>),
                 "Accept-Ranges", <<"none">>),
                 result.html),
              "Content-Length", <<ByteLength(result.html)>>)
  /\ log' = log \o <<Event("setHeader", "Content-Type"), Event("setHeader", "Accept-Ranges"),
                     Event("end", ""), Event("setHeader", "Content-Length"),
                     Event("callHook", "render:routeDone")>>
  /\ returned' = [kind |-> "html", html |-> result.html]
  /\ pc' = "done"
  /\ UNCHANGED <<options, req, result, rendered, context, preloadFiles, thrown, nextCalls>>

\* the three entity headers, res.end(html, 'utf8'), the routeDone hook, return html
SendResponse ==
  /\ pc = "send"
  /\ res' = End(SetHeader(SetHeader(SetHeader(res,
                 "Content-Type", <<"text/html; charset=utf-8">>),
                 "Accept-Ranges", <<"none">>),
                 "Content-Length", <<ByteLength(result.html)>>),
              result.html)
  /\ log' = log \o <<Event("setHeader", "Content-Type"), Event("setHeader", "Accept-Ranges"),
                     Event("setHeader", "Content-Length"), Event("end", ""),
                     Event("callHook", "render:routeDone")>>
  /\ returned' = [kind |-> "html", html |-> result.html]
  /\ pc' = "done"
  /\ UNCHANGED <<options, req, result, rendered, context, preloadFiles, thrown, nextCalls>>

\* mutant: the catch block forwards every error
CatchAlwaysForwards ==
  /\ pc = "catch"
  /\ nextCalls' = Append(nextCalls, thrown)
  /\ log' = Append(log, Event("next", thrown))
  /\ returned' = [kind |-> "undefined", html |-> <<>>]
  /\ pc' = "done"
  /\ UNCHANGED <<options, req, result, rendered, context, preloadFiles, res, thrown>>

\* catch (err): a redirected context logs and returns the error, any other forwards it
Catch ==
  /\ pc = "catch"
  /\ IF context.redirected
     THEN /\ log' = Append(log, Event("consola.error", thrown))
          /\ returned' = [kind |-> "error", html |-> <<>>]
          /\ UNCHANGED nextCalls
     ELSE /\ nextCalls' = Append(nextCalls, thrown)
          /\ log' = Append(log, Event("next", thrown))
          /\ returned' = [kind |-> "undefined", html |-> <<>>]
  /\ pc' = "done"
  /\ UNCHANGED <<options, req, result, rendered, context, preloadFiles, res, thrown>>

Next ==
  \/ Start
  \/ RenderReturns
  \/ RenderThrows
  \/ CallHookRoute
  \/ HookRouteResolves
  \/ CheckRedirected
  \/ SetErrorStatus
  \/ AddETag
  \/ PushHeaders
  \/ PushAssetsThrows
  \/ AddCsp
  \/ SendResponse
  \/ Catch

Spec == Init /\ [][Next]_vars

(* ===================== properties of the middleware =================== *)

Range(seq) == { seq[i] : i \in 1..Len(seq) }

\* the positions of an event in the log
Positions(ev, arg) == { i \in 1..Len(log) : log[i] = Event(ev, arg) }

HeaderEvents == { i \in 1..Len(log) : log[i].ev = "setHeader" }

IsSet(name) == res.headers[name].isSet

NoCspHeader ==
  ~IsSet("Content-Security-Policy") /\ ~IsSet("Content-Security-Policy-Report-Only")

\* the request's If-None-Match header names the tag of the rendered page
ConditionalMatches == req.hasIfNoneMatch /\ req.ifNoneMatch = ETagOf(result.html)

\* the handler got as far as the ETag block and took its 304 branch
NotModifiedTaken ==
  /\ pc = "done" /\ thrown = "" /\ ~result.redirected
  /\ ~result.error.present /\ options.etag /\ ConditionalMatches

\* text.split(sep)
RECURSIVE SplitText(_, _)
SplitText(text, sep) ==
  IF \A i \in 1..Len(text) : text[i] # sep THEN <<text>>
  ELSE LET i == CHOOSE k \in 1..Len(text) :
                  text[k] = sep /\ \A j \in 1..(k - 1) : text[j] # sep
       IN  <<SubSeq(text, 1, i - 1)>> \o SplitText(SubSeq(text, i + 1, Len(text)), sep)

(* C1: on every path the body is ended at most once, and after it has been *)
(* ended no header and no status code is set.                               *)
C1_EndOnceHeadersFirst ==
  /\ res.ended <= 1
  /\ Cardinality(Positions("end", "")) = res.ended
  /\ \A i \in Positions("end", "") : \A j \in (i + 1)..Len(log) :
       log[j].ev \notin {"setHeader", "statusCode", "end"}

C1_Witness ==
  /\ pc = "done" /\ res.ended = 1 /\ IsSet("Link") /\ IsSet("ETag")
  /\ IsSet("Content-Security-Policy") /\ res.statusCode = 200

(* C2: no error, etag enabled and a conditional header that is fresh        *)
(* against the tag of the HTML: the response ends with status 304 and an    *)
(* empty body, with no Link and no CSP header, whatever push and csp are.   *)
C2_NotModified ==
  NotModifiedTaken =>
    /\ res.statusCode = 304 /\ res.ended = 1 /\ res.body = <<>>
    /\ ~IsSet("Link") /\ NoCspHeader

C2_Witness ==
  /\ NotModifiedTaken /\ options.push /\ options.csp.enabled
  /\ res.statusCode = 304 /\ res.ended = 1

(* C3: a redirected result: the handler returns result.html, sets no ETag,  *)
(* Link or CSP header, writes no body, and dispatches render:routeDone      *)
(* exactly once, for every configuration.                                   *)
C3_Redirected ==
  (result.redirected /\ thrown = "") =>
    /\ ~IsSet("ETag") /\ ~IsSet("Link") /\ NoCspHeader
    /\ res.ended = 0
    /\ Cardinality(Positions("callHook", "render:routeDone")) = (IF pc = "done" THEN 1 ELSE 0)
    /\ pc = "done" => returned = [kind |-> "html", html |-> result.html]

C3_Witness ==
  /\ pc = "done" /\ result.redirected /\ returned.kind = "html"
  /\ options.etag /\ options.push /\ options.csp.enabled
  /\ Cardinality(Positions("callHook", "render:routeDone")) = 1

(* C4: the renderer throws: with context.redirected falsy the error goes to *)
(* next(err) exactly once; with it truthy the error is logged and returned  *)
(* and next is never called.  Either way no body, no render:routeDone.      *)
C4_RendererThrows ==
  (pc = "done" /\ thrown = "RenderError") =>
    /\ IF context.redirected
       THEN /\ nextCalls = <<>>
            /\ Cardinality(Positions("consola.error", "RenderError")) = 1
            /\ returned.kind = "error"
       ELSE /\ nextCalls = <<"RenderError">>
            /\ Positions("consola.error", "RenderError") = {}
            /\ returned.kind = "undefined"
    /\ res.ended = 0 /\ res.body = <<>>
    /\ Positions("callHook", "render:routeDone") = {}

C4_Witness ==
  pc = "done" /\ thrown = "RenderError" /\ ~context.redirected /\ nextCalls = <<"RenderError">>

\* the handler finished on the application-error path
ApplicationError ==
  pc = "done" /\ thrown = "" /\ result.error.present /\ ~result.redirected

(* C5 as stated: an application-level error suppresses the ETag, Link and   *)
(* CSP headers, whatever the options are, and the body is still written.    *)
C5_ErrorSuppressesAll ==
  ApplicationError =>
    /\ ~IsSet("ETag") /\ ~IsSet("Link") /\ NoCspHeader
    /\ res.ended = 1 /\ res.body = result.html

(* C5 amended: an application-level error suppresses the ETag and Link      *)
(* headers only; the CSP header named by reportOnly is set exactly when the *)
(* csp option is configured, and the body is still written.                 *)
C5_ErrorSuppressesETagAndPush ==
  ApplicationError =>
    /\ ~IsSet("ETag") /\ ~IsSet("Link")
    /\ IsSet("Content-Security-Policy") <=> (options.csp.enabled /\ ~options.csp.reportOnly)
    /\ IsSet("Content-Security-Policy-Report-Only") <=>
         (options.csp.enabled /\ options.csp.reportOnly)
    /\ res.ended = 1 /\ res.body = result.html
    /\ res.headers["Content-Length"].value = <<ByteLength(result.html)>>

C5_Witness ==
  /\ ApplicationError /\ options.etag /\ options.push /\ options.csp.enabled
  /\ IsSet("Content-Security-Policy") /\ res.ended = 1 /\ res.statusCode = 404

(* C6: when the middleware ends the response the status is 304 if the ETag  *)
(* short-circuit was taken, else result.error.statusCode (500 when absent)  *)
(* if result.error is present, else 200.                                    *)
C6_FinalStatus ==
  res.ended >= 1 =>
    res.statusCode =
      IF ~result.error.present /\ options.etag /\ ConditionalMatches THEN 304
      ELSE IF result.error.present
           THEN (IF result.error.statusCode = 0 THEN 500 ELSE result.error.statusCode)
           ELSE 200

C6_Witness ==
  res.ended = 1 /\ result.error.present /\ result.error.statusCode = 0 /\ res.statusCode = 500

\* the default push block ran: getPreloadFiles() was called and defaultPushAssets chose
DefaultPushRan ==
  /\ pc \in {"csp", "send", "done"} /\ thrown = "" /\ ~result.redirected
  /\ ~NotModifiedTaken
  /\ options.push /\ ~result.error.present /\ options.pushAssets = "unset"

\* the approval rule as the claim states it
ClaimApproves(entry) ==
  \/ options.shouldPush = "unset" /\ entry.asType \in {"script", "style"}
  \/ options.shouldPush # "unset"
       /\ ShouldPushFn(options.shouldPush, entry.fileWithoutQuery, entry.asType)

(* C7: default push policy: the Link header holds exactly one link per      *)
(* approved preload entry, in list order, and is set iff an entry is        *)
(* approved; fonts never appear by default, a shouldPush that rejects all   *)
(* yields no Link header.                                                   *)
C7_LinkHeader ==
  DefaultPushRan =>
    LET approved == SelectSeq(preloadFiles, ClaimApproves)
        links    == SplitText(res.headers["Link"].value, ", ")
    IN  /\ IsSet("Link") <=> Len(approved) > 0
        /\ IsSet("Link") =>
             /\ Len(links) = Len(approved)
             /\ \A i \in 1..Len(links) :
                  /\ SubSeq(links[i], 1, 4) = <<"<", PublicPath, approved[i].file, ">; rel=">>
                  /\ links[i][5] = (IF approved[i].modern THEN "modulepreload" ELSE "preload")
                  /\ links[i][Len(links[i])] = approved[i].asType
        /\ (IsSet("Link") /\ options.shouldPush = "unset") =>
             \A i \in 1..Len(links) : links[i][Len(links[i])] # "font"
        /\ options.shouldPush = "rejectAll" => ~IsSet("Link")

C7_Witness ==
  /\ DefaultPushRan /\ pc = "done" /\ options.shouldPush = "unset"
  /\ Len(preloadFiles) = 2
  /\ preloadFiles[1].asType = "font" /\ preloadFiles[2].asType = "style"
  /\ IsSet("Link")

\* the CSP block ran on a policies mapping
PolicyCspRan ==
  /\ pc \in {"send", "done"} /\ thrown = "" /\ ~result.redirected /\ ~NotModifiedTaken
  /\ options.csp.enabled /\ ~options.csp.allowedIsArray /\ options.csp.policiesIsObject

\* the sources of a 'directive source source ...' segment
SegmentSources(segment) ==
  [i \in 1..((Len(segment) - 1) \div 2) |-> segment[2 * i + 1]]

(* C8: csp.policies a plain mapping: the header has one 'directive sources' *)
(* segment per key of policies plus script-src, joined by '; '; script-src  *)
(* holds 'self', every hash and every user script-src source, each exactly  *)
(* once; every other directive carries exactly the user's sources.          *)
C8_PolicyHeader ==
  PolicyCspRan =>
    LET policies == options.csp.policies
        segments == SplitText(res.headers[CspHeaderName].value, "; ")
        keys     == { policies[i][1] : i \in 1..Len(policies) } \cup {"script-src"}
    IN  /\ IsSet(CspHeaderName)
        /\ Len(segments) = Cardinality(keys)
        /\ { segments[i][1] : i \in 1..Len(segments) } = keys
        /\ \A i \in 1..Len(segments) :
             LET sources == SegmentSources(segments[i])
             IN  /\ Len(segments[i]) >= 2 /\ segments[i][2] = " "
                 /\ \A j \in 1..Len(segments[i]) : j % 2 = 0 => segments[i][j] = " "
                 /\ IF segments[i][1] = "script-src"
                    THEN /\ Range(sources) =
                              {"'self'"} \cup Range(rendered)
                                \cup Range(PolicyGet(policies, "script-src"))
                         /\ Cardinality(Range(sources)) = Len(sources)
                    ELSE sources = PolicyGet(policies, segments[i][1])

C8_Witness ==
  /\ PolicyCspRan /\ pc = "done"
  /\ options.csp.policies = << <<"default-src", <<"'none'">>>> >>
  /\ rendered = <<"'sha256-abc'">>
  /\ res.headers["Content-Security-Policy"].value =
       <<"default-src", " ", "'none'", "; ", "script-src", " ", "'sha256-abc'", " ", "'self'">>

(* C9: render, then the render:route hook (awaited), then the headers, then *)
(* the body, then render:routeDone: no header before the render:route hook  *)
(* has completed; routeDone at most once, exactly once on every path that   *)
(* does not raise, and on the 304 and normal paths not before the body has  *)
(* been ended.                                                              *)
C9_EventOrder ==
  LET rendering == Positions("renderRoute", "")
      calls     == Positions("callHook", "render:route")
      completes == Positions("hookDone", "render:route")
      ends      == Positions("end", "")
      dones     == Positions("callHook", "render:routeDone")
  IN  /\ \A c \in calls : \E r \in rendering : r < c
      /\ \A c \in completes : \E r \in calls : r < c
      /\ \A h \in HeaderEvents : \E c \in completes : c < h
      /\ \A e \in ends : (\E c \in completes : c < e) /\ (\A h \in HeaderEvents : h < e)
      /\ \A d \in dones : \E c \in completes : c < d
      /\ Cardinality(dones) <= 1
      /\ (pc = "done" /\ thrown = "") => Cardinality(dones) = 1
      /\ thrown # "" => dones = {}
      /\ ~result.redirected => \A d \in dones : \E e \in ends : e < d

C9_Witness ==
  /\ pc = "done" /\ ~result.redirected /\ res.ended = 1 /\ res.statusCode = 200
  /\ IsSet("ETag") /\ Cardinality(Positions("callHook", "render:routeDone")) = 1

(* C10: the middleware never modifies the render result: the                *)
(* cspScriptSrcHashSet of the result handed to render:routeDone holds       *)
(* exactly the elements the renderer produced.                              *)
C10_ResultUnmodified ==
  Positions("callHook", "render:routeDone") # {} =>
    Range(result.cspScriptSrcHashSet) = Range(rendered)

====
